---- MODULE Spec2Model ----
(***************************************************************************)
(* Model of src/lib.rs of duckdb_warc: the parse_warc scalar function.     *)
(*                                                                         *)
(* A byte and a character are both a one-element string ("H", ":", ...);   *)
(* a byte string or a Rust String is a sequence of them.  Three values     *)
(* have a name instead of a glyph: NUL (0x00), XFF (the byte 0xFF, which   *)
(* is never part of valid UTF-8) and REPLACEMENT (U+FFFD).                 *)
(* Option<T> is a sequence of length 0 (None) or 1 (Some(x)).              *)
(***************************************************************************)
EXTENDS Integers, Sequences, FiniteSets, TLC

VARIABLES
    rows,       \* ParseWarc::invoke: the input vector (one blob or NULL per row)
    out,        \* ParseWarc::invoke: the six output child vectors, by row
    i,          \* ParseWarc::invoke: the loop index of `for i in 0..size`
    events,     \* the eprintln! lines written so far
    attempted,  \* <<row, bytes>>: the rows GzDecoder was run for, and the bytes
                \* then handed to parse_warc_record
    body,       \* parse_http_response: its `body` argument
    skip_body,  \* parse_http_response: its `skip_body` argument
    ret,        \* parse_http_response: the returned tuple (None before the call)
    pc          \* "invoke" or the position of the direct parse_http_response call

vars == <<rows, out, i, events, attempted, body, skip_body, ret, pc>>

---------------------------------------------------------------------------
(* Characters *)

NUL == "NUL"
XFF == "xFF"
REPLACEMENT == "U+FFFD"
CR == "\r"
LF == "\n"
SP == " "
TAB == "\t"
DQUOTE == "\""
BSLASH == "\\"
COLON == ":"
COMMA == ","

None == <<>>
Some(x) == <<x>>
IsSome(o) == Len(o) = 1
IsNone(o) == Len(o) = 0
Unwrap(o) == o[1]

---------------------------------------------------------------------------
(* Library string and slice operations used by the code *)

\* slice[a..b) with 0-based bounds as in Rust: &s[a..b]
Slice(s, a, b) == SubSeq(s, a + 1, b)

\* <[u8]>::starts_with / str::starts_with
StartsWith(s, p) == Len(s) >= Len(p) /\ Slice(s, 0, Len(p)) = p

\* s.windows(Len(w)).position(|x| x == w): 0-based index of the first match
WindowPositions(s, w) ==
    {p \in 0..(Len(s) - Len(w)) : Slice(s, p, p + Len(w)) = w}

Min(S) == CHOOSE x \in S : \A y \in S : x <= y

Position(s, w) ==
    IF WindowPositions(s, w) = {} THEN None ELSE Some(Min(WindowPositions(s, w)))

\* <[u8]>::contains(&b)
Contains(s, b) == \E k \in 1..Len(s) : s[k] = b

RECURSIVE Concat(_)
\* concatenation of a sequence of strings
Concat(ss) == IF ss = <<>> THEN <<>> ELSE Head(ss) \o Concat(Tail(ss))

RECURSIVE Join(_, _)
\* Vec<String>::join(sep)
Join(ss, sep) ==
    IF ss = <<>> THEN <<>>
    ELSE IF Len(ss) = 1 THEN ss[1]
    ELSE ss[1] \o sep \o Join(Tail(ss), sep)

\* str::replace(from, to) for a one-character pattern
ReplaceChar(s, from, to) ==
    Concat([k \in 1..Len(s) |-> IF s[k] = from THEN to ELSE <<s[k]>>])

\* String::from_utf8_lossy on the modelled bytes: ASCII is kept, the invalid
\* byte 0xFF becomes U+FFFD
Utf8Lossy(bytes) ==
    [k \in 1..Len(bytes) |-> IF bytes[k] = XFF THEN REPLACEMENT ELSE bytes[k]]

\* char::is_whitespace on the modelled characters
IsWhitespace(c) == c \in {SP, TAB, LF, CR, "\f"}

RECURSIVE TrimStart(_)
TrimStart(s) ==
    IF s # <<>> /\ IsWhitespace(Head(s)) THEN TrimStart(Tail(s)) ELSE s

RECURSIVE TrimEnd(_)
TrimEnd(s) ==
    IF s # <<>> /\ IsWhitespace(s[Len(s)])
    THEN TrimEnd(SubSeq(s, 1, Len(s) - 1)) ELSE s

\* str::trim
Trim(s) == TrimEnd(TrimStart(s))

Upper == <<"A","B","C","D","E","F","G","H","I","J","K","L","M",
           "N","O","P","Q","R","S","T","U","V","W","X","Y","Z">>
Lower == <<"a","b","c","d","e","f","g","h","i","j","k","l","m",
           "n","o","p","q","r","s","t","u","v","w","x","y","z">>

LowerChar(c) ==
    IF \E k \in 1..Len(Upper) : Upper[k] = c
    THEN Lower[CHOOSE k \in 1..Len(Upper) : Upper[k] = c]
    ELSE c

\* str::to_lowercase
ToLowercase(s) == [k \in 1..Len(s) |-> LowerChar(s[k])]

RECURSIVE Lines(_)
\* str::lines: split_inclusive('\n'), then strip one "\n" and, only if a "\n"
\* was stripped, one "\r" before it; an unterminated last line is kept as is
Lines(s) ==
    IF s = <<>> THEN <<>>
    ELSE LET p == Position(s, <<LF>>) IN
         IF IsNone(p) THEN <<s>>
         ELSE LET raw == Slice(s, 0, Unwrap(p))
                  line == IF raw # <<>> /\ raw[Len(raw)] = CR
                          THEN SubSeq(raw, 1, Len(raw) - 1) ELSE raw
              IN <<line>> \o Lines(Slice(s, Unwrap(p) + 1, Len(s)))

RECURSIVE SplitN(_, _, _)
\* str::splitn(n, c).collect()
SplitN(s, n, c) ==
    LET p == Position(s, <<c>>) IN
    IF n <= 1 \/ IsNone(p) THEN <<s>>
    ELSE <<Slice(s, 0, Unwrap(p))>> \o SplitN(Slice(s, Unwrap(p) + 1, Len(s)), n - 1, c)

\* str::split_once(c)
SplitOnce(s, c) ==
    LET p == Position(s, <<c>>) IN
    IF IsNone(p) THEN None
    ELSE Some(<<Slice(s, 0, Unwrap(p)), Slice(s, Unwrap(p) + 1, Len(s))>>)

Digits == <<"0","1","2","3","4","5","6","7","8","9">>
IsDigit(c) == \E k \in 1..10 : Digits[k] = c
DigitValue(c) == (CHOOSE k \in 1..10 : Digits[k] = c) - 1

I32_MAX == 2147483647
I32_MIN == -I32_MAX - 1

RECURSIVE ParseDigits(_, _, _)
\* the checked accumulation of <i32 as FromStr>: positive numbers add each
\* digit, negative ones subtract it; an overflow is an error (None)
ParseDigits(ds, acc, neg) ==
    IF ds = <<>> THEN Some(acc)
    ELSE IF ~IsDigit(Head(ds)) THEN None
    ELSE LET d == DigitValue(Head(ds)) IN
         IF neg
         THEN IF acc < (I32_MIN + d) \div 10 + (IF (I32_MIN + d) % 10 = 0 THEN 0 ELSE 1)
              THEN None ELSE ParseDigits(Tail(ds), acc * 10 - d, neg)
         ELSE IF acc > (I32_MAX - d) \div 10
              THEN None ELSE ParseDigits(Tail(ds), acc * 10 + d, neg)

\* str::parse::<i32>().ok()
ParseI32(s) ==
    IF s = <<>> THEN None
    ELSE IF Head(s) \in {"+", "-"}
         THEN IF Len(s) = 1 THEN None ELSE ParseDigits(Tail(s), 0, Head(s) = "-")
         ELSE ParseDigits(s, 0, FALSE)

RECURSIVE ToDecimal(_)
\* the Display of an unsigned integer
ToDecimal(n) ==
    IF n < 10 THEN <<Digits[n + 1]>>
    ELSE ToDecimal(n \div 10) \o <<Digits[(n % 10) + 1]>>

---------------------------------------------------------------------------
(* The functions of src/lib.rs *)

\* a literal of the source as a sequence of characters
HTTP_PREFIX == <<"H","T","T","P","/">>
CRLFCRLF == <<CR, LF, CR, LF>>
LFLF == <<LF, LF>>
ESCAPED_QUOTE == <<BSLASH, DQUOTE>>
PAIR_SEP == <<COMMA, SP>>
KEY_SEP == <<COLON, SP>>
RESPONSE == <<"r","e","s","p","o","n","s","e">>

\* the WarcHeader variants read by headers_to_json
WarcType == "WARC-Type"
Date == "WARC-Date"
RecordID == "WARC-Record-ID"
TargetURI == "WARC-Target-URI"
IPAddress == "WARC-IP-Address"
ContentType == "Content-Type"
ContentLength == "Content-Length"
PayloadDigest == "WARC-Payload-Digest"
BlockDigest == "WARC-Block-Digest"
IdentifiedPayloadType == "WARC-Identified-Payload-Type"

HeaderNames == {WarcType, Date, RecordID, TargetURI, IPAddress, ContentType,
                PayloadDigest, BlockDigest, IdentifiedPayloadType}

\* the key literal each format! of headers_to_json writes, as characters
KeyText(h) ==
    CASE h = WarcType -> <<"W","A","R","C","-","T","y","p","e">>
      [] h = Date -> <<"W","A","R","C","-","D","a","t","e">>
      [] h = RecordID -> <<"W","A","R","C","-","R","e","c","o","r","d","-","I","D">>
      [] h = TargetURI -> <<"W","A","R","C","-","T","a","r","g","e","t","-","U","R","I">>
      [] h = IPAddress -> <<"W","A","R","C","-","I","P","-","A","d","d","r","e","s","s">>
      [] h = ContentType -> <<"C","o","n","t","e","n","t","-","T","y","p","e">>
      [] h = ContentLength -> <<"C","o","n","t","e","n","t","-","L","e","n","g","t","h">>
      [] h = PayloadDigest ->
           <<"W","A","R","C","-","P","a","y","l","o","a","d","-","D","i","g","e","s","t">>
      [] h = BlockDigest ->
           <<"W","A","R","C","-","B","l","o","c","k","-","D","i","g","e","s","t">>
      [] h = IdentifiedPayloadType ->
           <<"W","A","R","C","-","I","d","e","n","t","i","f","i","e","d","-",
             "P","a","y","l","o","a","d","-","T","y","p","e">>

\* the pushes with Content-Length pushed last
HeaderOrder_LengthLast ==
    <<WarcType, Date, RecordID, TargetURI, IPAddress, ContentType,
      PayloadDigest, BlockDigest, IdentifiedPayloadType, ContentLength>>

\* the order of the pushes in headers_to_json
HeaderOrder == <<WarcType, Date, RecordID, TargetURI, IPAddress, ContentType,
                 ContentLength, PayloadDigest, BlockDigest, IdentifiedPayloadType>>

\* sanitize_header without the escaping of quotes
sanitize_header_NoEscape(v) == ReplaceChar(v, NUL, <<>>)

\* v.replace('"', "\\\"").replace('\0', "")
sanitize_header(v) == ReplaceChar(ReplaceChar(v, DQUOTE, ESCAPED_QUOTE), NUL, <<>>)

\* sanitize_for_ffi without its filter
sanitize_for_ffi_Unfiltered(s) == s

\* s.chars().filter(|c| *c != '\0').collect()
sanitize_for_ffi(s) == SelectSeq(s, LAMBDA c : c # NUL)

\* format!("\"{}\": \"{}\"", key, value)
QuotedPair(key, value) ==
    <<DQUOTE>> \o key \o <<DQUOTE>> \o KEY_SEP \o <<DQUOTE>> \o value \o <<DQUOTE>>

\* format!("\"Content-Length\": {}", n)
BarePair(key, n) == <<DQUOTE>> \o key \o <<DQUOTE>> \o KEY_SEP \o ToDecimal(n)

\* format!("{{{}}}", pairs.join(", "))
Braces(pairs) == <<"{">> \o Join(pairs, PAIR_SEP) \o <<"}">>

\* Record::header(h): the value of header h, or None
header(record, h) == record.headers[h]

\* Record<BufferedBody>::content_length(): the length of the block read
content_length(record) == Len(record.body)

\* the pair pushed for one header of the fixed list, if any
HeaderPair(record, h) ==
    IF h = ContentLength
    THEN <<BarePair(KeyText(h), content_length(record))>>
    ELSE IF IsSome(header(record, h))
         THEN <<QuotedPair(KeyText(h), sanitize_header(Unwrap(header(record, h))))>>
         ELSE <<>>

headers_to_json(record) ==
    Braces(Concat([k \in 1..Len(HeaderOrder) |-> HeaderPair(record, HeaderOrder[k])]))

NoHttp == [http_version |-> None, http_status |-> None,
           http_headers |-> None, http_body |-> None]

\* separator_pos with a missing separator read as "the headers run to the end"
separator_pos_OrEnd(b) ==
    IF IsSome(Position(b, CRLFCRLF)) THEN Some(<<Unwrap(Position(b, CRLFCRLF)), 4>>)
    ELSE IF IsSome(Position(b, LFLF)) THEN Some(<<Unwrap(Position(b, LFLF)), 2>>)
    ELSE Some(<<Len(b), 0>>)

\* separator_pos taking whichever separator comes first in the body
separator_pos_Earliest(b) ==
    LET crlf == Position(b, CRLFCRLF)
        lf == Position(b, LFLF)
    IN IF IsSome(crlf) /\ (IsNone(lf) \/ Unwrap(crlf) < Unwrap(lf))
       THEN Some(<<Unwrap(crlf), 4>>)
       ELSE IF IsSome(lf) THEN Some(<<Unwrap(lf), 2>>) ELSE None

\* the (position, length) of the header/body separator
separator_pos(b) ==
    IF IsSome(Position(b, CRLFCRLF)) THEN Some(<<Unwrap(Position(b, CRLFCRLF)), 4>>)
    ELSE IF IsSome(Position(b, LFLF)) THEN Some(<<Unwrap(Position(b, LFLF)), 2>>)
    ELSE None

\* StatusLine giving up on the whole line when the status does not parse
StatusLine_AllOrNothing(lines) ==
    IF lines # <<>>
    THEN LET parts == SplitN(lines[1], 3, SP) IN
         IF Len(parts) >= 2 /\ IsSome(ParseI32(parts[2]))
         THEN [version |-> Some(sanitize_for_ffi(parts[1])), status |-> ParseI32(parts[2])]
         ELSE [version |-> None, status |-> None]
    ELSE [version |-> None, status |-> None]

\* the status line: version and status
StatusLine(lines) ==
    IF lines # <<>>
    THEN LET parts == SplitN(lines[1], 3, SP) IN
         [version |-> Some(sanitize_for_ffi(parts[1])),
          status |-> IF Len(parts) >= 2 THEN ParseI32(parts[2]) ELSE None]
    ELSE [version |-> None, status |-> None]

\* HeaderLinePair splitting the line on its last colon
HeaderLinePair_LastColon(line) ==
    LET colons == {k \in 1..Len(line) : line[k] = COLON} IN
    IF colons = {} THEN <<>>
    ELSE LET at == CHOOSE k \in colons : \A q \in colons : q <= k
             key == ReplaceChar(ToLowercase(sanitize_for_ffi(Trim(SubSeq(line, 1, at - 1)))),
                                DQUOTE, ESCAPED_QUOTE)
             value == ReplaceChar(sanitize_for_ffi(Trim(SubSeq(line, at + 1, Len(line)))),
                                  DQUOTE, ESCAPED_QUOTE)
         IN <<QuotedPair(key, value)>>

\* one iteration of `for line in lines`: the pair pushed for the line, if any
HeaderLinePair(line) ==
    LET kv == SplitOnce(line, COLON) IN
    IF IsNone(kv) THEN <<>>
    ELSE LET key == ReplaceChar(ToLowercase(sanitize_for_ffi(Trim(Unwrap(kv)[1]))),
                                DQUOTE, ESCAPED_QUOTE)
             value == ReplaceChar(sanitize_for_ffi(Trim(Unwrap(kv)[2])),
                                  DQUOTE, ESCAPED_QUOTE)
         IN <<QuotedPair(key, value)>>

header_pairs(lines) ==
    Concat([k \in 1..(Len(lines) - 1) |-> HeaderLinePair(lines[k + 1])])

parse_http_response(b, skip) ==
    IF ~StartsWith(b, HTTP_PREFIX) THEN NoHttp
    ELSE IF IsNone(separator_pos(b)) THEN NoHttp
    ELSE LET pos == Unwrap(separator_pos(b))[1]
             sep_len == Unwrap(separator_pos(b))[2]
             header_bytes == Slice(b, 0, pos)
             body_bytes == Slice(b, pos + sep_len, Len(b))
             lines == Lines(Utf8Lossy(header_bytes))
             pairs == header_pairs(lines)
         IN [http_version |-> StatusLine(lines).version,
             http_status |-> StatusLine(lines).status,
             http_headers |-> IF pairs = <<>> THEN None ELSE Some(Braces(pairs)),
             http_body |-> IF skip THEN None ELSE Some(body_bytes)]

---------------------------------------------------------------------------
(* The input buffers.  The framing of a WARC record and the gzip format    *)
(* belong to the warc and flate2 crates; a buffer is described by what     *)
(* those crates make of it.                                                *)

\* bytes WarcReader reads as one record (trailing bytes are not read)
WarcBytes(record) == [enc |-> "warc", record |-> record]
\* bytes WarcReader fails on, and that are no gzip stream
Garbage == [enc |-> "garbage"]
\* no bytes at all
Empty == [enc |-> "empty"]
\* a complete gzip member whose content is the buffer `inner`
Gzip(inner) == [enc |-> "gzip", inner |-> inner]
\* a gzip header followed by a stream that fails to inflate
BadGzip == [enc |-> "badgzip"]

\* GzDecoder::new(raw).read_to_end(&mut decompressed)
GzDecode(raw) ==
    IF raw.enc = "gzip" THEN [is_ok |-> TRUE, decompressed |-> raw.inner]
    ELSE [is_ok |-> FALSE, decompressed |-> Empty]

\* WarcReader::new(reader).iter_records().next(): "ok", "err" or "none"
FirstRecord(data) ==
    CASE data.enc = "warc" -> "ok"
      [] data.enc = "empty" -> "none"
      [] OTHER -> "err"

\* Option<Cow<str>>::unwrap_or_default
UnwrapOrDefault(o) == IF IsSome(o) THEN Unwrap(o) ELSE <<>>

\* the eprintln! of the binary branch
BinaryEvent(record) ==
    [uri |-> UnwrapOrDefault(header(record, TargetURI)),
     type |-> UnwrapOrDefault(header(record, IdentifiedPayloadType))]

\* is_binary looking for a null byte at the start of the block only
is_binary_FirstByte(record) == record.body # <<>> /\ record.body[1] = NUL

is_binary(record) == Contains(record.body, NUL)

\* the ParsedRecord built for a record whose WARC-Type is present
BuildRecord(record) ==
    LET http == IF Unwrap(header(record, WarcType)) = RESPONSE
                THEN parse_http_response(record.body, is_binary(record))
                ELSE NoHttp
    IN [warc_version |-> sanitize_for_ffi(record.version),
        warc_headers |-> sanitize_for_ffi(headers_to_json(record)),
        http_version |-> http.http_version,
        http_status |-> http.http_status,
        http_headers |-> http.http_headers,
        http_body |-> http.http_body]

\* the lines parse_warc_record writes to stderr
RecordEvents(record) ==
    IF Unwrap(header(record, WarcType)) = RESPONSE /\ is_binary(record)
    THEN <<BinaryEvent(record)>> ELSE <<>>

\* parse_warc_record: the Option<ParsedRecord> and the lines written
parse_warc_record(data) ==
    IF FirstRecord(data) # "ok" THEN [result |-> None, written |-> <<>>]
    ELSE IF IsNone(header(data.record, WarcType))
         THEN [result |-> None, written |-> <<>>]
         ELSE [result |-> Some(BuildRecord(data.record)),
               written |-> RecordEvents(data.record)]

\* data_to_parse without the !decompressed.is_empty() test
data_to_parse_AnyOk(raw_data) ==
    IF GzDecode(raw_data).is_ok THEN GzDecode(raw_data).decompressed ELSE raw_data

\* the block computing data_to_parse in ParseWarc::invoke
data_to_parse(raw_data) ==
    IF GzDecode(raw_data).is_ok /\ GzDecode(raw_data).decompressed # Empty
    THEN GzDecode(raw_data).decompressed
    ELSE raw_data

\* a row of the output struct vector: each child is NULL (None) or a value
AllNull == [written |-> TRUE,
            warc_version |-> None, warc_headers |-> None, http_version |-> None,
            http_status |-> None, http_headers |-> None, http_body |-> None]

Unwritten == [AllNull EXCEPT !.written = FALSE]

\* the Some(record) arm with the insert of warc_headers left out
RowOf_NoHeaders(record) ==
    [written |-> TRUE,
     warc_version |-> Some(record.warc_version),
     warc_headers |-> None,
     http_version |-> record.http_version,
     http_status |-> record.http_status,
     http_headers |-> record.http_headers,
     http_body |-> record.http_body]

\* the Some(record) arm of the match in invoke
RowOf(record) ==
    [written |-> TRUE,
     warc_version |-> Some(record.warc_version),
     warc_headers |-> Some(record.warc_headers),
     http_version |-> record.http_version,
     http_status |-> record.http_status,
     http_headers |-> record.http_headers,
     http_body |-> record.http_body]

NullInput == [null |-> TRUE, data |-> Empty]
Blob(data) == [null |-> FALSE, data |-> data]

---------------------------------------------------------------------------
(* ParseWarc::invoke, one action per way through the body of the loop *)

\* if input_vector.row_is_null(i) { set_null x 6; continue }
InvokeNullRow ==
    /\ pc = "invoke"
    /\ i < Len(rows)
    /\ rows[i + 1].null
    /\ out' = [out EXCEPT ![i + 1] = AllNull]
    /\ i' = i + 1
    /\ UNCHANGED <<rows, events, attempted, body, skip_body, ret, pc>>

\* Some(record) => the six inserts
InvokeParsed ==
    /\ pc = "invoke"
    /\ i < Len(rows)
    /\ ~rows[i + 1].null
    /\ LET parsed == parse_warc_record(data_to_parse(rows[i + 1].data)) IN
        /\ IsSome(parsed.result)
        /\ out' = [out EXCEPT ![i + 1] = RowOf(Unwrap(parsed.result))]
        /\ events' = events \o parsed.written
    /\ attempted' = attempted \cup {<<i + 1, data_to_parse(rows[i + 1].data)>>}
    /\ i' = i + 1
    /\ UNCHANGED <<rows, body, skip_body, ret, pc>>

\* None => set_null x 6
InvokeUnparsed ==
    /\ pc = "invoke"
    /\ i < Len(rows)
    /\ ~rows[i + 1].null
    /\ LET parsed == parse_warc_record(data_to_parse(rows[i + 1].data)) IN
        /\ IsNone(parsed.result)
        /\ out' = [out EXCEPT ![i + 1] = AllNull]
        /\ events' = events \o parsed.written
    /\ attempted' = attempted \cup {<<i + 1, data_to_parse(rows[i + 1].data)>>}
    /\ i' = i + 1
    /\ UNCHANGED <<rows, body, skip_body, ret, pc>>

Next == InvokeNullRow \/ InvokeParsed \/ InvokeUnparsed

\* a direct call of parse_http_response, as the unit tests make it
CallParseHttp ==
    /\ pc = "call"
    /\ ret' = Some(parse_http_response(body, skip_body))
    /\ pc' = "returned"
    /\ UNCHANGED <<rows, out, i, events, attempted, body, skip_body>>

NextHttp == CallParseHttp

---------------------------------------------------------------------------
(* Inputs *)

\* all sequences over A of length at most n
SeqsUpTo(A, n) == UNION {[1..k -> A] : k \in 0..n}

NoHeaders == [h \in HeaderNames |-> None]

REQUEST == <<"r","e","q","u","e","s","t">>
CAPITAL_RESPONSE == <<"R","e","s","p","o","n","s","e">>
VERSION_1_0 == <<"1",".","0">>
URI == <<"u",":","/">>
PAYLOAD_TYPE == <<"t","/","p">>

\* a record of the given type, with or without the two headers the
\* diagnostic line prints
RecordOf(type, described, b) ==
    [version |-> VERSION_1_0,
     headers |-> [NoHeaders EXCEPT
                    ![WarcType] = type,
                    ![TargetURI] = IF described THEN Some(URI) ELSE None,
                    ![IdentifiedPayloadType] =
                        IF described THEN Some(PAYLOAD_TYPE) ELSE None],
     body |-> b]

TEXT_RESPONSE ==
    HTTP_PREFIX \o <<"1"," ","2","0","0",CR,LF,"A",":","b",CR,LF,CR,LF,"h","i">>
BINARY_RESPONSE ==
    HTTP_PREFIX \o <<"1"," ","2","0","0",LF,"A",":","b",LF,LF,NUL,"i">>

\* the rows a batch is made of
BatchRows ==
    {NullInput, Blob(Garbage), Blob(Empty), Blob(BadGzip), Blob(Gzip(Empty)),
     Blob(Gzip(Garbage)),
     Blob(WarcBytes(RecordOf(Some(RESPONSE), TRUE, TEXT_RESPONSE))),
     Blob(Gzip(WarcBytes(RecordOf(Some(RESPONSE), TRUE, TEXT_RESPONSE)))),
     Blob(WarcBytes(RecordOf(Some(RESPONSE), FALSE, BINARY_RESPONSE))),
     Blob(WarcBytes(RecordOf(Some(REQUEST), TRUE, TEXT_RESPONSE))),
     Blob(WarcBytes(RecordOf(None, TRUE, TEXT_RESPONSE)))}

MaxBatch == 2

InitInvoke(batch) ==
    /\ rows = batch
    /\ out = [k \in 1..Len(batch) |-> Unwritten]
    /\ i = 0
    /\ events = <<>>
    /\ attempted = {}
    /\ body = <<>>
    /\ skip_body = FALSE
    /\ ret = None
    /\ pc = "invoke"

\* a batch of any size up to MaxBatch
Init == \E batch \in SeqsUpTo(BatchRows, MaxBatch) : InitInvoke(batch)

Spec == Init /\ [][Next]_vars

MaxTail == 2

\* record bodies: with and without the HTTP/ prefix, a separator and a null byte
RecordBodies ==
    {p \o h \o sep \o rest :
        p \in {<<>>, HTTP_PREFIX},
        h \in SeqsUpTo({LF, NUL, COLON, "x"}, MaxTail),
        sep \in {<<>>, LFLF, CRLFCRLF},
        rest \in {<<>>, <<"x">>, <<NUL>>}}

Records ==
    {RecordOf(Some(RESPONSE), d, b) : d \in BOOLEAN, b \in RecordBodies}
    \cup {RecordOf(t, TRUE, b) :
            t \in {Some(REQUEST), Some(CAPITAL_RESPONSE), None}, b \in RecordBodies}

RecordRows ==
    {NullInput, Blob(Garbage), Blob(Empty), Blob(BadGzip), Blob(Gzip(Empty)),
     Blob(Gzip(Garbage))}
    \cup {Blob(WarcBytes(r)) : r \in Records}
    \cup {Blob(Gzip(WarcBytes(r))) : r \in Records}

\* one row holding any of the modelled buffers
InitRecord == \E row \in RecordRows : InitInvoke(<<row>>)

SpecRecord == InitRecord /\ [][Next]_vars

---------------------------------------------------------------------------
(* Properties of the record parser and of invoke *)

\* w occurs somewhere in s
Occurs(s, w) == \E p \in 1..(Len(s) - Len(w) + 1) : SubSeq(s, p, p + Len(w) - 1) = w

\* the buffer behind one layer of gzip
Peel(data) == IF data.enc = "gzip" THEN data.inner ELSE data

Processed == 1..i

\* row k was parsed into a record
Returned(k) == out[k].written /\ IsSome(out[k].warc_version)

RecordIn(k) == Peel(rows[k].data).record

HttpAbsent(row) ==
    /\ IsNone(row.http_version) /\ IsNone(row.http_status)
    /\ IsNone(row.http_headers) /\ IsNone(row.http_body)

AllSixNull(row) ==
    /\ IsNone(row.warc_version) /\ IsNone(row.warc_headers) /\ HttpAbsent(row)

NoHttpMessage(record) ==
    \/ header(record, WarcType) # Some(RESPONSE)
    \/ ~StartsWith(record.body, HTTP_PREFIX)
    \/ (~Occurs(record.body, CRLFCRLF) /\ ~Occurs(record.body, LFLF))

\* C1: whenever a record is returned and its WARC-Type is not exactly
\* "response", or its body does not begin with "HTTP/", or its body holds
\* neither CRLFCRLF nor LFLF, the four http fields are absent and warc_version
\* and warc_headers are present.
C1_NoHttpFields ==
    \A k \in Processed :
        (Returned(k) /\ NoHttpMessage(RecordIn(k))) =>
            /\ HttpAbsent(out[k])
            /\ IsSome(out[k].warc_version)
            /\ IsSome(out[k].warc_headers)

\* a response record whose body begins with "HTTP/" but has no separator was
\* returned without http fields
C1_Witness ==
    /\ i = 1 /\ Returned(1)
    /\ header(RecordIn(1), WarcType) = Some(RESPONSE)
    /\ StartsWith(RecordIn(1).body, HTTP_PREFIX)
    /\ ~Occurs(RecordIn(1).body, LFLF)
    /\ HttpAbsent(out[1])

\* C2: every processed row of a batch is all null if its input is null (and
\* was neither decompressed nor parsed), and otherwise is all null or has
\* both warc_version and warc_headers; warc_version is never present without
\* warc_headers; rows with the same input have the same output, and rows not
\* yet reached are untouched.
C2_RowOutcomes ==
    /\ \A k \in Processed :
        /\ out[k].written
        /\ rows[k].null =>
              (AllSixNull(out[k]) /\ \A a \in attempted : a[1] # k)
        /\ ~rows[k].null =>
              (AllSixNull(out[k])
                 \/ (IsSome(out[k].warc_version) /\ IsSome(out[k].warc_headers)))
        /\ ~(IsSome(out[k].warc_version) /\ IsNone(out[k].warc_headers))
        /\ \A j \in Processed : rows[j] = rows[k] => out[j] = out[k]
    /\ \A k \in (i + 1)..Len(rows) : out[k] = Unwritten

\* a finished batch with a null row, a failed row and a parsed row
C2_Witness ==
    /\ Len(rows) >= 2 /\ i = Len(rows)
    /\ rows[1].null /\ AllSixNull(out[1])
    /\ ~rows[2].null /\ IsSome(out[2].warc_version)

\* C3: for a response record with a null byte anywhere in its body, http_body
\* is absent, exactly one diagnostic line is written, carrying the target URI
\* and the identified payload type, and http_version, http_status and
\* http_headers are those of parse_http_response(body, false); without a
\* null byte no line is written and http_body is that of
\* parse_http_response(body, false).
C3_BinaryBody ==
    (i = 1 /\ Len(rows) = 1 /\ Returned(1)
       /\ header(RecordIn(1), WarcType) = Some(RESPONSE)) =>
        LET record == RecordIn(1)
            plain == parse_http_response(record.body, FALSE)
        IN IF \E k \in 1..Len(record.body) : record.body[k] = NUL
           THEN /\ IsNone(out[1].http_body)
                /\ Len(events) = 1
                /\ header(record, TargetURI) \in {None, Some(events[1].uri)}
                /\ IsNone(header(record, TargetURI)) => events[1].uri = <<>>
                /\ header(record, IdentifiedPayloadType) \in {None, Some(events[1].type)}
                /\ IsNone(header(record, IdentifiedPayloadType)) => events[1].type = <<>>
                /\ out[1].http_version = plain.http_version
                /\ out[1].http_status = plain.http_status
                /\ out[1].http_headers = plain.http_headers
           ELSE /\ events = <<>>
                /\ out[1].http_body = plain.http_body

\* a response record with a null byte inside its HTTP header section, parsed
\* with its headers and without its body
C3_Witness ==
    /\ i = 1 /\ Len(rows) = 1 /\ Returned(1)
    /\ header(RecordIn(1), WarcType) = Some(RESPONSE)
    /\ IsSome(out[1].http_headers)
    /\ IsNone(out[1].http_body)
    /\ \E k \in 1..Len(RecordIn(1).body) :
          /\ RecordIn(1).body[k] = NUL
          /\ ~Occurs(SubSeq(RecordIn(1).body, 1, k), LFLF)
    /\ Len(events) = 1 /\ events[1].uri = URI

Inflates(data) == data.enc = "gzip" /\ data.inner.enc # "empty"

\* C7: the bytes handed to the record parser are the inflated bytes exactly
\* when the input inflates to something non-empty and are the input itself
\* otherwise; a gzip-compressed response record gives the same output row as
\* the record itself; every non-null row processed was handed to the parser,
\* whatever the decoder made of it.
C7_Decompression ==
    /\ \A a \in attempted :
          /\ Inflates(rows[a[1]].data) => a[2] = rows[a[1]].data.inner
          /\ ~Inflates(rows[a[1]].data) => a[2] = rows[a[1]].data
    /\ \A k \in Processed : ~rows[k].null => \E a \in attempted : a[1] = k
    /\ \A j, k \in Processed :
          (/\ ~rows[j].null /\ ~rows[k].null
           /\ rows[k].data.enc = "warc"
           /\ header(rows[k].data.record, WarcType) = Some(RESPONSE)
           /\ rows[j].data = Gzip(rows[k].data))
          => (out[j] = out[k] /\ IsSome(out[k].http_status))

\* a batch with a response record, its gzip encoding and a gzip member of
\* nothing, all processed
C7_Witness ==
    /\ Len(rows) >= 2 /\ i = Len(rows)
    /\ rows[1].data.enc = "warc" /\ IsSome(out[1].http_body)
    /\ rows[2].data = Gzip(rows[1].data)
    /\ out[2] = out[1]

\* a gzip member of nothing was handed to the parser as it came
C7_WitnessEmpty ==
    /\ i = 1 /\ rows[1].data = Gzip(Empty)
    /\ <<1, Gzip(Empty)>> \in attempted

---------------------------------------------------------------------------
(* Direct calls of parse_http_response *)

InitHttp(b, skip) ==
    /\ rows = <<>>
    /\ out = <<>>
    /\ i = 0
    /\ events = <<>>
    /\ attempted = {}
    /\ body = b
    /\ skip_body = skip
    /\ ret = None
    /\ pc = "call"

MaxSepTail == 7

\* bodies for the search of the separator: CR, LF, a letter and a non-text byte
SeparatorBodies == {HTTP_PREFIX \o t : t \in SeqsUpTo({CR, LF, "x", XFF}, MaxSepTail)}

InitSeparator == \E b \in SeparatorBodies, skip \in BOOLEAN : InitHttp(b, skip)

SpecSeparator == InitSeparator /\ [][NextHttp]_vars

Result == Unwrap(ret)

\* the 1-based places where w occurs in s
Places(s, w) == {p \in 1..(Len(s) - Len(w) + 1) : SubSeq(s, p, p + Len(w) - 1) = w}

First(S) == CHOOSE p \in S : \A q \in S : p <= q

\* the separator found is the n bytes at place p: the header section is what
\* precedes it, the body what follows it, and the three make up the input
SplitAt(p, n) ==
    /\ separator_pos(body) = Some(<<p - 1, n>>)
    /\ p - 1 + n <= Len(body)
    /\ ~skip_body =>
         /\ Result.http_body = Some(SubSeq(body, p + n, Len(body)))
         /\ SubSeq(body, 1, p - 1) \o SubSeq(body, p, p + n - 1)
                \o Unwrap(Result.http_body) = body
    /\ skip_body => IsNone(Result.http_body)

\* C10: for a body beginning with "HTTP/" the separator is the first CRLFCRLF
\* if there is one anywhere, otherwise the first LFLF; the header section is
\* the bytes before it and, unless the body is skipped, http_body is the
\* bytes after it, so that the three parts make up the input; without a
\* separator nothing is returned.
C10_Separator ==
    (pc = "returned" /\ StartsWith(body, HTTP_PREFIX)) =>
        IF Places(body, CRLFCRLF) # {} THEN SplitAt(First(Places(body, CRLFCRLF)), 4)
        ELSE IF Places(body, LFLF) # {} THEN SplitAt(First(Places(body, LFLF)), 2)
        ELSE HttpAbsent(Result)

\* an LFLF comes before the CRLFCRLF, and the body returned is what follows
\* the CRLFCRLF
C10_Witness ==
    /\ pc = "returned" /\ ~skip_body
    /\ Places(body, CRLFCRLF) # {} /\ Places(body, LFLF) # {}
    /\ First(Places(body, LFLF)) < First(Places(body, CRLFCRLF))
    /\ Result.http_body = Some(SubSeq(body, First(Places(body, CRLFCRLF)) + 4, Len(body)))
    /\ Unwrap(Result.http_body) # <<>>

---------------------------------------------------------------------------
(* The status line *)

MaxStatusTail == 4

HEADER_AND_BODY == <<LF, "A", COLON, "b", LF, LF, "h", "i">>

\* "HTTP/", any text for the rest of the status line, then either the end of
\* the headers or one header line, and a body
StatusBodies ==
    {HTTP_PREFIX \o t \o rest :
        t \in SeqsUpTo({SP, "2", "-", "x", NUL, XFF}, MaxStatusTail),
        rest \in {CRLFCRLF \o <<"h", "i">>, HEADER_AND_BODY}}

InitStatus == \E b \in StatusBodies, skip \in BOOLEAN : InitHttp(b, skip)

SpecStatus == InitStatus /\ [][NextHttp]_vars

\* the bytes of the header section and its first line
HeaderBytes == SubSeq(body, 1, Unwrap(separator_pos(body))[1])
StatusLineBytes == Lines(HeaderBytes)[1]
StatusLineText == Utf8Lossy(StatusLineBytes)

Spaces(s) == {k \in 1..Len(s) : s[k] = SP}

\* the text before the first space, or all of it
VersionToken(s) ==
    IF Spaces(s) = {} THEN s ELSE SubSeq(s, 1, First(Spaces(s)) - 1)

AfterFirstSpace(s) == SubSeq(s, First(Spaces(s)) + 1, Len(s))

HasStatusToken(s) == Spaces(s) # {}

\* the text between the first and the second space
StatusToken(s) == VersionToken(AfterFirstSpace(s))

RECURSIVE WithoutNul(_)
WithoutNul(s) ==
    IF s = <<>> THEN <<>>
    ELSE IF Head(s) = NUL THEN WithoutNul(Tail(s))
    ELSE <<Head(s)>> \o WithoutNul(Tail(s))

AllDigits(s) == s # <<>> /\ \A k \in 1..Len(s) : IsDigit(s[k])

\* an optional sign and at least one digit
IsInteger(s) ==
    \/ AllDigits(s)
    \/ (s # <<>> /\ Head(s) \in {"+", "-"} /\ AllDigits(Tail(s)))

OK_STATUS == <<"2", "0", "0">>

\* the status line with its status token replaced by "200" (added, if the
\* line has none)
WithStatus200(line) ==
    IF ~HasStatusToken(line) THEN line \o <<SP>> \o OK_STATUS
    ELSE SubSeq(line, 1, First(Spaces(line))) \o OK_STATUS
           \o SubSeq(AfterFirstSpace(line), Len(StatusToken(line)) + 1,
                     Len(AfterFirstSpace(line)))

\* the input with the status token of its status line replaced by "200"
BodyWithStatus200 ==
    WithStatus200(StatusLineBytes)
        \o SubSeq(body, Len(StatusLineBytes) + 1, Len(body))

Parsed200 == parse_http_response(BodyWithStatus200, skip_body)

StatusCase ==
    pc = "returned" /\ StartsWith(body, HTTP_PREFIX) /\ IsSome(separator_pos(body))

\* http_status is the status token parsed as an integer, absent when the
\* token is missing or is no integer
StatusIsParsedToken ==
    /\ IsSome(Result.http_status) <=>
          (HasStatusToken(StatusLineText) /\ IsInteger(StatusToken(StatusLineText)))
    /\ IsSome(Result.http_status) =>
          Result.http_status = ParseI32(StatusToken(StatusLineText))

\* an absent status leaves the other three fields as they are for the same
\* input with the status "200"
AbsentStatusChangesNothing ==
    IsNone(Result.http_status) =>
        /\ Parsed200.http_status = Some(200)
        /\ Parsed200.http_version = Result.http_version
        /\ Parsed200.http_headers = Result.http_headers
        /\ Parsed200.http_body = Result.http_body

\* C4 as stated: http_version is the version token of the status line
\* verbatim, http_status the parsed status token, and an absent status
\* changes no other field.
C4_Verbatim ==
    StatusCase =>
        /\ Result.http_version = Some(VersionToken(StatusLineText))
        /\ StatusIsParsedToken
        /\ AbsentStatusChangesNothing

\* C4 (amended): http_version is the version token of the decoded status line
\* with its null characters removed; http_status is the status token parsed
\* as an integer, absent when the token is missing or does not parse; an
\* absent status changes no other field.
C4_Sanitized ==
    StatusCase =>
        /\ Result.http_version = Some(WithoutNul(VersionToken(StatusLineText)))
        /\ StatusIsParsedToken
        /\ AbsentStatusChangesNothing

\* a version token with a null character and a status token that is no
\* integer: the version without the null, the headers and the body are returned
C4_Witness ==
    /\ StatusCase /\ ~skip_body
    /\ HasStatusToken(StatusLineText)
    /\ StatusToken(StatusLineText) = <<"x">>
    /\ IsNone(Result.http_status)
    /\ VersionToken(StatusLineText) = HTTP_PREFIX \o <<NUL>>
    /\ Result.http_version = Some(HTTP_PREFIX)
    /\ IsSome(Result.http_headers)
    /\ Result.http_body = Some(<<"h", "i">>)

---------------------------------------------------------------------------
(* The header lines *)

MaxHeaderTail == 5

\* "HTTP/" as the status line, then any text made of line ends, colons,
\* spaces, a capital letter, quotes and null bytes, then the separator
HeaderBodies ==
    {HTTP_PREFIX \o <<LF>> \o t \o LFLF :
        t \in SeqsUpTo({LF, COLON, SP, "A", DQUOTE, NUL}, MaxHeaderTail)}

InitHeaderLines == \E b \in HeaderBodies : InitHttp(b, FALSE)

SpecHeaderLines == InitHeaderLines /\ [][NextHttp]_vars

\* the lines after the status line, and those of them with a colon
HeaderLines == Tail(Lines(Utf8Lossy(HeaderBytes)))
ColonLines == SelectSeq(HeaderLines, LAMBDA l : \E k \in 1..Len(l) : l[k] = COLON)

FirstColon(l) == First({k \in 1..Len(l) : l[k] = COLON})
RawKey(l) == SubSeq(l, 1, FirstColon(l) - 1)
RawValue(l) == SubSeq(l, FirstColon(l) + 1, Len(l))

RECURSIVE EscapeQuotes(_)
EscapeQuotes(s) ==
    IF s = <<>> THEN <<>>
    ELSE IF Head(s) = DQUOTE THEN <<BSLASH, DQUOTE>> \o EscapeQuotes(Tail(s))
    ELSE <<Head(s)>> \o EscapeQuotes(Tail(s))

\* "key": "value"
PairText(key, value) ==
    <<DQUOTE>> \o key \o <<DQUOTE, COLON, SP, DQUOTE>> \o value \o <<DQUOTE>>

RECURSIVE CommaSeparated(_)
CommaSeparated(texts) ==
    IF Len(texts) = 1 THEN texts[1]
    ELSE texts[1] \o <<COMMA, SP>> \o CommaSeparated(Tail(texts))

MapText(texts) == <<"{">> \o CommaSeparated(texts) \o <<"}">>

\* C9 as stated: one pair per line with a colon, in order, split on the first
\* colon, both sides trimmed, the key lower-cased and the value kept as it
\* is; absent when no line has a colon.  (The removal of null characters is
\* granted here, so that what refutes the statement is the value itself: on
\* input without null characters this is the statement word for word.)
C9_ValueAsIs ==
    (pc = "returned" /\ IsSome(separator_pos(body))) =>
        IF ColonLines = <<>> THEN IsNone(Result.http_headers)
        ELSE Result.http_headers =
               Some(MapText([k \in 1..Len(ColonLines) |->
                       PairText(EscapeQuotes(ToLowercase(WithoutNul(Trim(RawKey(ColonLines[k]))))),
                                WithoutNul(Trim(RawValue(ColonLines[k]))))]))

\* C9 (amended): one pair per line with a colon, in order, split on the first
\* colon, both sides trimmed and then stripped of null characters, the key
\* lower-cased, and every double quote of key and value written as
\* backslash-quote; repeated keys are kept; absent when no line has a colon.
C9_Escaped ==
    (pc = "returned" /\ IsSome(separator_pos(body))) =>
        IF ColonLines = <<>> THEN IsNone(Result.http_headers)
        ELSE Result.http_headers =
               Some(MapText([k \in 1..Len(ColonLines) |->
                       PairText(EscapeQuotes(ToLowercase(WithoutNul(Trim(RawKey(ColonLines[k]))))),
                                EscapeQuotes(WithoutNul(Trim(RawValue(ColonLines[k])))))]))

\* two lines with the same (empty) key, the first with a quote as its value
C9_Witness ==
    /\ pc = "returned"
    /\ HeaderLines = <<<<COLON, DQUOTE>>, <<COLON>>>>
    /\ Result.http_headers =
         Some(<<"{", DQUOTE, DQUOTE, COLON, SP, DQUOTE, BSLASH, DQUOTE, DQUOTE, COMMA, SP,
                DQUOTE, DQUOTE, COLON, SP, DQUOTE, DQUOTE, "}">>)

---------------------------------------------------------------------------
(* The WARC header map *)

HEADER_VALUE == <<"v">>
TWELVE_BYTES == <<"0","1","2","3","4","5","6","7","8","9","a","b">>

\* a record with exactly the headers of `present`
RecordWith(present, b) ==
    [version |-> VERSION_1_0,
     headers |-> [h \in HeaderNames |->
                    IF h \notin present THEN None
                    ELSE IF h = WarcType THEN Some(REQUEST) ELSE Some(HEADER_VALUE)],
     body |-> b]

\* every choice of headers, with an empty block and with one of twelve bytes
HeaderRows ==
    {NullInput, Blob(Garbage)}
    \cup {Blob(WarcBytes(RecordWith(present, b))) :
            present \in SUBSET HeaderNames, b \in {<<>>, TWELVE_BYTES}}

InitHeaders == \E row \in HeaderRows : InitInvoke(<<row>>)

SpecHeaders == InitHeaders /\ [][Next]_vars

\* the keys of the map, in the order the specification gives
CanonicalKeys ==
    <<<<"W","A","R","C","-","T","y","p","e">>,
      <<"W","A","R","C","-","D","a","t","e">>,
      <<"W","A","R","C","-","R","e","c","o","r","d","-","I","D">>,
      <<"W","A","R","C","-","T","a","r","g","e","t","-","U","R","I">>,
      <<"W","A","R","C","-","I","P","-","A","d","d","r","e","s","s">>,
      <<"C","o","n","t","e","n","t","-","T","y","p","e">>,
      <<"C","o","n","t","e","n","t","-","L","e","n","g","t","h">>,
      <<"W","A","R","C","-","P","a","y","l","o","a","d","-","D","i","g","e","s","t">>,
      <<"W","A","R","C","-","B","l","o","c","k","-","D","i","g","e","s","t">>,
      <<"W","A","R","C","-","I","d","e","n","t","i","f","i","e","d","-","P","a","y","l","o","a","d","-","T","y","p","e">>>>

\* the header each key stands for
CanonicalHeaders ==
    <<"WARC-Type", "WARC-Date", "WARC-Record-ID", "WARC-Target-URI", "WARC-IP-Address",
      "Content-Type", "Content-Length", "WARC-Payload-Digest", "WARC-Block-Digest",
      "WARC-Identified-Payload-Type">>

IsLength(n) == CanonicalHeaders[n] = "Content-Length"

\* "key": as it stands before a value
KeyPattern(key) == <<DQUOTE>> \o key \o <<DQUOTE, COLON, SP>>

KeyPlaces(text, n) == Places(text, KeyPattern(CanonicalKeys[n]))

Expected(record, n) == IsLength(n) \/ IsSome(record.headers[CanonicalHeaders[n]])

\* C8: warc_headers of a returned record lists its entries in the fixed
\* order, with the canonical keys, each once and only if the header is
\* present, except Content-Length, which is always there as a bare integer
\* equal to the length of the block; the map is never {}.
C8_HeaderMap ==
    (i = 1 /\ Len(rows) = 1 /\ Returned(1)) =>
        LET text == Unwrap(out[1].warc_headers)
            record == RecordIn(1)
            length == KeyPattern(CanonicalKeys[7]) \o ToDecimal(Len(record.body))
        IN /\ \A n \in 1..10 :
                Cardinality(KeyPlaces(text, n)) = IF Expected(record, n) THEN 1 ELSE 0
           /\ \A m, n \in 1..10 :
                (m < n /\ Expected(record, m) /\ Expected(record, n)) =>
                    First(KeyPlaces(text, m)) < First(KeyPlaces(text, n))
           /\ Cardinality(Places(text, <<DQUOTE, COLON, SP>>))
                = Cardinality({n \in 1..10 : Expected(record, n)})
           /\ Places(text, length \o <<COMMA>>) # {} \/ Places(text, length \o <<"}">>) # {}
           /\ Head(text) = "{" /\ text[Len(text)] = "}"
           /\ text # <<"{", "}">>

\* a record with every header and a block of twelve bytes
C8_Witness ==
    /\ i = 1 /\ Len(rows) = 1 /\ Returned(1)
    /\ \A h \in HeaderNames : IsSome(RecordIn(1).headers[h])
    /\ Places(Unwrap(out[1].warc_headers),
              KeyPattern(CanonicalKeys[7]) \o <<"1", "2", COMMA, SP>>
                  \o KeyPattern(CanonicalKeys[8])) # {}

---------------------------------------------------------------------------
(* Quotes in header values *)

MaxValueLen == 4

\* header values over the quote, the backslash, the characters of the two
\* separators and a letter
EscapeValues == SeqsUpTo({DQUOTE, BSLASH, COLON, COMMA, SP, "a"}, MaxValueLen)

\* a response whose first header line has the value v, followed by another
ResponseWithValue(v) ==
    HTTP_PREFIX \o <<LF, "k", COLON>> \o v \o <<LF, "z", COLON, "z", LF, LF>>

\* a response record with v as its WARC-Target-URI and as an HTTP header value
EscapeRecord(v) ==
    [version |-> VERSION_1_0,
     headers |-> [NoHeaders EXCEPT ![WarcType] = Some(RESPONSE),
                                   ![TargetURI] = Some(v)],
     body |-> ResponseWithValue(v)]

EscapeRows ==
    {NullInput, Blob(Garbage)} \cup {Blob(WarcBytes(EscapeRecord(v))) : v \in EscapeValues}

InitEscape == \E row \in EscapeRows : InitInvoke(<<row>>)

SpecEscape == InitEscape /\ [][Next]_vars

PATTERN_KEY_VALUE == <<DQUOTE, COLON, SP, DQUOTE>>
PATTERN_NEXT_PAIR == <<DQUOTE, COMMA, SP, DQUOTE>>

SplitPlaces(text) == Places(text, PATTERN_KEY_VALUE) \cup Places(text, PATTERN_NEXT_PAIR)

RECURSIVE SplitOnPatterns(_)
\* the pieces of text between the occurrences of `": "` and `", "`, found
\* from left to right
SplitOnPatterns(text) ==
    IF SplitPlaces(text) = {} THEN <<text>>
    ELSE <<SubSeq(text, 1, First(SplitPlaces(text)) - 1)>>
           \o SplitOnPatterns(SubSeq(text, First(SplitPlaces(text)) + 4, Len(text)))

RECURSIVE Unescape(_)
\* every backslash-quote read as a quote
Unescape(text) ==
    IF Len(text) >= 2 /\ text[1] = BSLASH /\ text[2] = DQUOTE
    THEN <<DQUOTE>> \o Unescape(SubSeq(text, 3, Len(text)))
    ELSE IF text = <<>> THEN <<>>
    ELSE <<Head(text)>> \o Unescape(Tail(text))

EscapeCase ==
    /\ i = 1 /\ Len(rows) = 1 /\ Returned(1)
    /\ \E k \in 1..Len(UnwrapOrDefault(RecordIn(1).headers[TargetURI])) :
          Unwrap(RecordIn(1).headers[TargetURI])[k] = DQUOTE

\* the value as the record, and as the HTTP header line, holds it
WarcValue == Unwrap(RecordIn(1).headers[TargetURI])
HttpValue == Trim(WarcValue)

\* the pieces that stand where the value was written:
\* {"WARC-Type": "response", "WARC-Target-URI": "<value>", "Content-Length": n}
\* and {"k": "<value>", "z": "z"}
WarcPiece == SplitOnPatterns(Unwrap(out[1].warc_headers))[4]
HttpPiece == SplitOnPatterns(Unwrap(out[1].http_headers))[2]

EndsWith(text, w) == Len(text) >= Len(w) /\ SubSeq(text, Len(text) - Len(w) + 1, Len(text)) = w

\* the value ends like the text that closes a key or a value
EndsLikeSeparator(v) ==
    EndsWith(v, <<DQUOTE, COLON, SP>>) \/ EndsWith(v, <<DQUOTE, COMMA, SP>>)

---------------------------------------------------------------------------
(* Null characters *)

MaxSanitizeTail == 3

VERSION_WITH_NUL == <<"1", NUL, ".", TAB, "0", NUL>>

SanitizeBodies ==
    {HTTP_PREFIX \o t \o LFLF : t \in SeqsUpTo({NUL, SP, LF, COLON, "A"}, MaxSanitizeTail)}

\* records with null characters in the version, in a header value, in the
\* status line and in the HTTP header lines
SanitizeRecords ==
    {[version |-> v,
      headers |-> [NoHeaders EXCEPT ![WarcType] = Some(RESPONSE), ![TargetURI] = Some(u)],
      body |-> b] :
        v \in {VERSION_1_0, VERSION_WITH_NUL},
        u \in {URI, <<NUL>>, <<"u", NUL, DQUOTE, NUL>>},
        b \in SanitizeBodies}

SanitizeRows ==
    {NullInput, Blob(Garbage)} \cup {Blob(WarcBytes(r)) : r \in SanitizeRecords}

InitSanitize == \E row \in SanitizeRows : InitInvoke(<<row>>)

SpecSanitize == InitSanitize /\ [][Next]_vars

NoNul(text) == \A k \in 1..Len(text) : text[k] # NUL

\* a string field that is absent, or holds no null character and is left as
\* it is by sanitize_for_ffi
Clean(field) ==
    IsSome(field) => (NoNul(Unwrap(field)) /\ sanitize_for_ffi(Unwrap(field)) = Unwrap(field))

====
